---- MODULE Spec2Model ----
(***************************************************************************)
(* A model of the RV32IM emulator: the register file and memory of the     *)
(* core crate, the instruction decoder, the load/store helpers, and the    *)
(* step / run driver of the Vm.                                            *)
(*                                                                         *)
(* Representation of u32.  The model checker's integers are 32 bits wide   *)
(* and signed, so a u32 is represented by the integer that has the same    *)
(* 32-bit two's-complement pattern (the value of `x as i32`):              *)
(* 0xFFFFFFFF is -1, 0x80000000 is -2^31, and every value below 2^31 is    *)
(* itself.  Hi and Lo give the two unsigned 16-bit halves, and all u32     *)
(* arithmetic is done on the halves, so that no intermediate value leaves  *)
(* the 32-bit range.                                                       *)
(***************************************************************************)
EXTENDS Integers, Sequences, FiniteSets, TLC

---------------------------------------------------------------------------
(* 32-bit words *)

Two8 == 2 ^ 8
Two15 == 2 ^ 15
Two16 == 2 ^ 16

\* the unsigned halves of a word
Hi(w) == (w \div Two16) % Two16
Lo(w) == w % Two16

\* the word with the given unsigned halves
Word(hi, lo) == (IF hi >= Two15 THEN hi - Two16 ELSE hi) * Two16 + lo

\* the word 0xHHHHLLLL written as two hexadecimal halves
Hex(hi, lo) == Word(hi, lo)

\* `x as i32` and `x as u32` are the identity on the bit pattern

\* u32 < u32
ULt(a, b) == \/ Hi(a) < Hi(b)
             \/ (Hi(a) = Hi(b) /\ Lo(a) < Lo(b))

\* i32 < i32
SLt(a, b) == a < b

\* the sum of the high halves of two u32 with the carry of the low halves
HiSum(a, b) == Hi(a) + Hi(b) + ((Lo(a) + Lo(b)) \div Two16)

\* u32::wrapping_add
wrapping_add(a, b) == Word(HiSum(a, b) % Two16, (Lo(a) + Lo(b)) % Two16)

\* true when a + b on u32 overflows
add_overflows(a, b) == HiSum(a, b) >= Two16

\* two's-complement negation and u32::wrapping_sub
Neg(a) == wrapping_add(Word(Two16 - 1 - Hi(a), Two16 - 1 - Lo(a)), 1)
wrapping_sub(a, b) == wrapping_add(a, Neg(b))

\* bitwise operations on n-bit naturals, bit by bit
RECURSIVE BitAnd(_, _, _)
BitAnd(a, b, n) ==
    IF n = 0 THEN 0
    ELSE (IF a % 2 = 1 /\ b % 2 = 1 THEN 1 ELSE 0)
         + 2 * BitAnd(a \div 2, b \div 2, n - 1)

RECURSIVE BitOr(_, _, _)
BitOr(a, b, n) ==
    IF n = 0 THEN 0
    ELSE (IF a % 2 = 1 \/ b % 2 = 1 THEN 1 ELSE 0)
         + 2 * BitOr(a \div 2, b \div 2, n - 1)

RECURSIVE BitXor(_, _, _)
BitXor(a, b, n) ==
    IF n = 0 THEN 0
    ELSE (IF a % 2 # b % 2 THEN 1 ELSE 0)
         + 2 * BitXor(a \div 2, b \div 2, n - 1)

\* the same on 4-bit digits, tabulated, and on 16-bit halves digit by digit
AndDigit == [a \in 0 .. 15 |-> [b \in 0 .. 15 |-> BitAnd(a, b, 4)]]
OrDigit == [a \in 0 .. 15 |-> [b \in 0 .. 15 |-> BitOr(a, b, 4)]]
XorDigit == [a \in 0 .. 15 |-> [b \in 0 .. 15 |-> BitXor(a, b, 4)]]

OnDigits(table, a, b) ==
    table[a % 16][b % 16]
    + 16 * table[(a \div 16) % 16][(b \div 16) % 16]
    + 256 * table[(a \div 256) % 16][(b \div 256) % 16]
    + 4096 * table[a \div 4096][b \div 4096]

And32(a, b) ==
    Word(OnDigits(AndDigit, Hi(a), Hi(b)), OnDigits(AndDigit, Lo(a), Lo(b)))
Or32(a, b) ==
    Word(OnDigits(OrDigit, Hi(a), Hi(b)), OnDigits(OrDigit, Lo(a), Lo(b)))
Xor32(a, b) ==
    Word(OnDigits(XorDigit, Hi(a), Hi(b)), OnDigits(XorDigit, Lo(a), Lo(b)))

\* one-bit shifts
Shl1(w) == Word((Hi(w) * 2 + (Lo(w) \div Two15)) % Two16, (Lo(w) * 2) % Two16)
Shr1(w) == Word(Hi(w) \div 2, (Lo(w) \div 2) + (Hi(w) % 2) * Two15)

\* x << n and x >> n on u32, for n in 0 .. 31
ShlN(w, n) ==
    IF n < 16
    THEN Word((Hi(w) % (2 ^ (16 - n))) * (2 ^ n) + (Lo(w) \div (2 ^ (16 - n))),
              (Lo(w) % (2 ^ (16 - n))) * (2 ^ n))
    ELSE Word((Lo(w) % (2 ^ (32 - n))) * (2 ^ (n - 16)), 0)

ShrN(w, n) ==
    IF n < 16
    THEN Word(Hi(w) \div (2 ^ n),
              (Lo(w) \div (2 ^ n)) + (Hi(w) % (2 ^ n)) * (2 ^ (16 - n)))
    ELSE Word(0, Hi(w) \div (2 ^ (n - 16)))

\* a left shift that takes the whole shift amount: 32 and more give 0
wrapping_shl_unmasked(w, s) ==
    IF Hi(s) = 0 /\ Lo(s) < 32 THEN ShlN(w, Lo(s)) ELSE 0

\* u32::wrapping_shl, u32::wrapping_shr: the shift amount is taken modulo 32
wrapping_shl(w, s) == ShlN(w, Lo(s) % 32)
wrapping_shr(w, s) == ShrN(w, Lo(s) % 32)

\* i32::wrapping_shr: arithmetic, the shift amount is taken modulo 32
wrapping_shr_i32(w, s) ==
    LET n == Lo(s) % 32
    IN  IF n = 31 THEN (IF w < 0 THEN -1 ELSE 0) ELSE w \div (2 ^ n)

\* the four bytes of a word, least significant first
Limb(w, i) ==
    CASE i = 0 -> Lo(w) % Two8
      [] i = 1 -> Lo(w) \div Two8
      [] i = 2 -> Hi(w) % Two8
      [] i = 3 -> Hi(w) \div Two8

Bytes(w) == [i \in 0 .. 3 |-> Limb(w, i)]

\* the 64-bit product of two u32, given and returned as bytes, least
\* significant first: the schoolbook product, column by column
ProductBytes(x, y) ==
    LET col[k \in 0 .. 7] ==
            (IF k \in 0 .. 3 THEN x[0] * y[k] ELSE 0)
            + (IF k - 1 \in 0 .. 3 THEN x[1] * y[k - 1] ELSE 0)
            + (IF k - 2 \in 0 .. 3 THEN x[2] * y[k - 2] ELSE 0)
            + (IF k - 3 \in 0 .. 3 THEN x[3] * y[k - 3] ELSE 0)
        sum[k \in 0 .. 7] ==
            col[k] + (IF k = 0 THEN 0 ELSE sum[k - 1] \div Two8)
    IN  [k \in 0 .. 7 |-> sum[k] % Two8]

Product(a, b) == ProductBytes(Bytes(a), Bytes(b))

LowWord(p) == Word(p[3] * Two8 + p[2], p[1] * Two8 + p[0])
HighWord(p) == Word(p[7] * Two8 + p[6], p[5] * Two8 + p[4])

\* u32::wrapping_mul
wrapping_mul(a, b) == LowWord(Product(a, b))

\* ((a as u64) * (b as u64) >> 32) as u32
mulhu(a, b) == HighWord(Product(a, b))

\* ((a as i32 as i64) * (b as i32 as i64) >> 32) as u32
mulh(a, b) ==
    wrapping_sub(wrapping_sub(mulhu(a, b), IF a < 0 THEN b ELSE 0),
                 IF b < 0 THEN a ELSE 0)

\* ((a as i32 as i64) * (b as u32 as i64) >> 32) as u32
mulhsu(a, b) == wrapping_sub(mulhu(a, b), IF a < 0 THEN b ELSE 0)

\* i32::wrapping_div for a nonzero divisor: the quotient truncates toward
\* zero, and i32::MIN / -1 wraps to i32::MIN
IntMin == -(2 ^ 30) - (2 ^ 30)

TruncDivPos(a, b) ==
    IF a < 0 THEN (a + (b - 1)) \div b ELSE a \div b

\* a division that saturates: i32::MIN / -1 is i32::MAX
wrapping_div_saturating(a, b) ==
    IF b > 0 THEN TruncDivPos(a, b)
    ELSE IF b = IntMin THEN (IF a = IntMin THEN 1 ELSE 0)
    ELSE IF a = IntMin /\ b = -1 THEN -(IntMin + 1)
    ELSE -TruncDivPos(a, -b)

wrapping_div(a, b) ==
    IF b > 0 THEN TruncDivPos(a, b)
    ELSE IF b = IntMin THEN (IF a = IntMin THEN 1 ELSE 0)
    ELSE IF a = IntMin /\ b = -1 THEN IntMin
    ELSE -TruncDivPos(a, -b)

\* i32::wrapping_rem for a nonzero divisor: i32::MIN % -1 is 0
wrapping_rem(a, b) ==
    IF a = IntMin /\ b = -1 THEN 0 ELSE a - b * wrapping_div(a, b)

\* u32 / u32 and u32 % u32 for a nonzero divisor.  For a >= 2^31 > b
\* the quotient is q0 = ((a >> 1) / b) << 1 or q0 + 1.
udiv_from(a, b, q0) ==
    IF ULt(wrapping_sub(a, wrapping_mul(q0, b)), b) THEN q0
    ELSE wrapping_add(q0, 1)

udiv(a, b) ==
    IF b < 0 THEN (IF ULt(a, b) THEN 0 ELSE 1)
    ELSE IF a >= 0 THEN a \div b
    ELSE udiv_from(a, b, Shl1(Shr1(a) \div b))

urem(a, b) == wrapping_sub(a, wrapping_mul(udiv(a, b), b))

---------------------------------------------------------------------------
(* instructions.rs: the instruction forms and the decoder *)

\* (insn >> sh) & mask
Field(insn, sh, mask) == And32(ShrN(insn, sh), mask)

\* insn & 0x8000_0000 != 0
SignBit(insn) == And32(insn, IntMin) # 0

RType_new(insn) ==
    [funct7 |-> Field(insn, 25, \h7f),
     rs2    |-> Field(insn, 20, \h1f),
     rs1    |-> Field(insn, 15, \h1f),
     funct3 |-> Field(insn, 12, \h7),
     rd     |-> Field(insn, 7, \h1f)]

IType_new(insn) ==
    LET uimm == Field(insn, 20, \h7ff)
        imm  == IF SignBit(insn) THEN uimm - (2 ^ 11) ELSE uimm
    IN  [imm    |-> imm,
         rs1    |-> Field(insn, 15, \h1f),
         funct3 |-> Field(insn, 12, \h7),
         rd     |-> Field(insn, 7, \h1f)]

\* the shift-immediate fields the executor reads from an I-type form
\* (itype.metadata in vm.rs; IType in instructions.rs does not hold them):
\* imm_shift_amt = insn[24:20] and funct7 = insn[31:25]
IType_metadata(insn) ==
    [imm_shift_amt |-> Field(insn, 20, \h1f),
     funct7        |-> Field(insn, 25, \h7f)]

SType_new(insn) ==
    LET uimm == Or32(Field(insn, 20, \h7e0), Field(insn, 7, \h1f))
        imm  == IF SignBit(insn) THEN uimm - (2 ^ 11) ELSE uimm
    IN  [imm    |-> imm,
         rs2    |-> Field(insn, 20, \h1f),
         rs1    |-> Field(insn, 15, \h1f),
         funct3 |-> Field(insn, 12, \h7)]

\* BType::new without the term (insn & 0x80) << 4
BType_new_without_bit11(insn) ==
    LET uimm == Or32(Field(insn, 20, \h7e0), Field(insn, 7, \h1e))
        imm  == IF SignBit(insn) THEN uimm - (2 ^ 12) ELSE uimm
    IN  [imm    |-> imm,
         rs2    |-> Field(insn, 20, \h1f),
         rs1    |-> Field(insn, 15, \h1f),
         funct3 |-> Field(insn, 12, \h7)]

BType_new(insn) ==
    LET uimm == Or32(Or32(Field(insn, 20, \h7e0), Field(insn, 7, \h1e)),
                     ShlN(And32(insn, \h80), 4))
        imm  == IF SignBit(insn) THEN uimm - (2 ^ 12) ELSE uimm
    IN  [imm    |-> imm,
         rs2    |-> Field(insn, 20, \h1f),
         rs1    |-> Field(insn, 15, \h1f),
         funct3 |-> Field(insn, 12, \h7)]

UType_new(insn) ==
    [imm |-> And32(insn, Hex(\hffff, \hf000)),
     rd  |-> Field(insn, 7, \h1f)]

JType_new(insn) ==
    LET uimm == Or32(Or32(And32(insn, \hff000),
                          ShrN(And32(insn, \h100000), 9)),
                     Field(insn, 20, \h7fe))
        imm  == IF SignBit(insn) THEN uimm - (2 ^ 20) ELSE uimm
    IN  [imm |-> imm,
         rd  |-> Field(insn, 7, \h1f)]

REGISTER_CLASS == \b0110011
IMMEDIATE_CLASS == \b0010011
IMMEDIATE_LOAD_CLASS == \b0000011
STORE_CLASS == \b0100011
BRANCH_CLASS == \b1100011
JAL_CLASS == \b1101111
JALR_CLASS == \b1100111
UPPER_IMMEDIATE_CLASS == \b0110111
ENVIRONMENT_CLASS == \b1110011

\* Ok(InstructionDecoder { decoded_instruction, .. }) and Err(error); the
\* form carries the primary opcode the executor dispatches on
DecodeOk(tag, form, opcode, metadata) ==
    [err |-> "None", tag |-> tag, opcode |-> opcode, form |-> form,
     metadata |-> metadata]

DecodeErr(e, opcode) ==
    [err |-> e, tag |-> "None", opcode |-> opcode, form |-> <<>>,
     metadata |-> <<>>]

\* a decoder without the environment class: ECALL and EBREAK are invalid
\* opcodes like any other unknown word
decode_class_no_environment(instruction, opcode) ==
    CASE opcode = REGISTER_CLASS ->
             DecodeOk("RType", RType_new(instruction), opcode, <<>>)
      [] opcode = IMMEDIATE_CLASS \/ opcode = IMMEDIATE_LOAD_CLASS
         \/ opcode = JALR_CLASS ->
             DecodeOk("IType", IType_new(instruction), opcode,
                      IType_metadata(instruction))
      [] opcode = STORE_CLASS ->
             DecodeOk("SType", SType_new(instruction), opcode, <<>>)
      [] opcode = BRANCH_CLASS ->
             DecodeOk("BType", BType_new(instruction), opcode, <<>>)
      [] opcode = JAL_CLASS ->
             DecodeOk("JType", JType_new(instruction), opcode, <<>>)
      [] opcode = UPPER_IMMEDIATE_CLASS ->
             DecodeOk("UType", UType_new(instruction), opcode, <<>>)
      [] OTHER -> DecodeErr("InvalidOpcode", opcode)

\* the match of InstructionDecoder::decode on opcode
decode_class(instruction, opcode) ==
    CASE opcode = REGISTER_CLASS ->
             DecodeOk("RType", RType_new(instruction), opcode, <<>>)
      [] opcode = IMMEDIATE_CLASS \/ opcode = IMMEDIATE_LOAD_CLASS ->
             DecodeOk("IType", IType_new(instruction), opcode,
                      IType_metadata(instruction))
      [] opcode = STORE_CLASS ->
             DecodeOk("SType", SType_new(instruction), opcode, <<>>)
      [] opcode = BRANCH_CLASS ->
             DecodeOk("BType", BType_new(instruction), opcode, <<>>)
      [] opcode = JAL_CLASS ->
             DecodeOk("JType", JType_new(instruction), opcode, <<>>)
      [] opcode = JALR_CLASS ->
             DecodeOk("IType", IType_new(instruction), opcode,
                      IType_metadata(instruction))
      [] opcode = UPPER_IMMEDIATE_CLASS ->
             DecodeOk("UType", UType_new(instruction), opcode, <<>>)
      [] opcode = ENVIRONMENT_CLASS -> DecodeErr("EnvironmentError", opcode)
      [] OTHER -> DecodeErr("InvalidOpcode", opcode)

\* InstructionDecoder::decode
decode(instruction) == decode_class(instruction, And32(instruction, \h7f))

---------------------------------------------------------------------------
(* core: the register file and the memory *)

\* pub const WORD_SIZE: usize = 4
WORD_SIZE == 4

\* pub const MAXIMUM_MEMORY_SIZE: u32 = u32::MAX
MAXIMUM_MEMORY_SIZE == Hex(\hffff, \hffff)

\* the sizes of MemoryChuckSize, in bytes
SizeOf(size) ==
    CASE size = "BYTE" -> 1
      [] size = "HALF_WORD" -> 2
      [] size = "WORD_SIZE" -> WORD_SIZE

\* Registers::new
Registers_new == [r \in 0 .. 31 |-> 0]

\* Registers::read_reg
read_reg(registers, reg) == registers[reg]

\* the same register file with every write accepted (a register file
\* without the hard-wired zero)
write_reg_any(registers, reg, value) == [registers EXCEPT ![reg] = value]

\* Registers::write_reg
write_reg(registers, reg, value) ==
    IF reg = 0 THEN registers
    ELSE [registers EXCEPT ![reg] = value]

\* The backing vector Memory.memory holds MemoryWords words, all zero at
\* Memory::new.  It is kept as the function of its nonzero words: a word
\* index outside the domain holds 0.
MemoryWords == udiv(MAXIMUM_MEMORY_SIZE, 4)

Memory_new == <<>>

WordAt(memory, index) ==
    IF index \in DOMAIN memory THEN memory[index] ELSE 0

SetWord(memory, index, value) ==
    IF value = 0
    THEN [i \in (DOMAIN memory) \ {index} |-> memory[i]]
    ELSE [i \in (DOMAIN memory) \cup {index} |->
              IF i = index THEN value ELSE memory[i]]

\* Memory::load_program: word k of the program goes to memory[addr + k],
\* where addr starts at base_addr as usize; the first index past the
\* vector panics
load_program(memory, program, base_addr) ==
    LET room == IF base_addr < 0 \/ base_addr >= MemoryWords THEN 0
                ELSE MemoryWords - base_addr
        n == IF Len(program) <= room THEN Len(program) ELSE room
        written == {base_addr + k : k \in 0 .. (n - 1)}
        value(i) == IF i \in written THEN program[i - base_addr + 1]
                    ELSE memory[i]
    IN  [panic |-> n < Len(program),
         memory |-> [i \in {j \in (DOMAIN memory) \cup written : value(j) # 0}
                        |-> value(i)]]

\* Memory::new_with_load_program
new_with_load_program(program, base_addr) ==
    load_program(Memory_new, program, base_addr)

\* The bodies of MemoryInterface::read_mem and write_word are
\* unimplemented!() in lib.rs.  The definitions from here to write_mem
\* follow section 4.1 of the specification (a little-endian byte container
\* without alignment rules) on the backing vector of Memory::new.

\* the word index and the byte lane of a byte address
WordIndex(addr) == ShrN(addr, 2)
Lane(addr) == Lo(addr) % 4

\* the byte at a byte address, little-endian within its word
ByteAt(memory, addr) == Limb(WordAt(memory, WordIndex(addr)), Lane(addr))

\* the word with the given four bytes, least significant first
FromBytes(b) == Word(b[3] * Two8 + b[2], b[1] * Two8 + b[0])

\* the word with byte lane `lane` replaced
WithLimb(w, lane, byte) ==
    FromBytes([i \in 0 .. 3 |-> IF i = lane THEN byte ELSE Limb(w, i)])

\* every byte of the access lies in the backing vector
InMemory(addr, size) ==
    \A i \in 0 .. (SizeOf(size) - 1) :
        WordIndex(wrapping_add(addr, i)) < MemoryWords

\* MemoryInterface::read_mem: the unsigned value of the `size` bytes at
\* addr, in little-endian order; None when the access leaves the memory
read_mem(memory, addr, size) ==
    IF ~InMemory(addr, size) THEN [some |-> FALSE, value |-> 0]
    ELSE [some |-> TRUE,
          value |-> FromBytes([i \in 0 .. 3 |->
                       IF i < SizeOf(size)
                       THEN ByteAt(memory, wrapping_add(addr, i))
                       ELSE 0])]

\* the memory with one byte replaced
SetByte(memory, addr, byte) ==
    SetWord(memory, WordIndex(addr),
            WithLimb(WordAt(memory, WordIndex(addr)), Lane(addr), byte))

\* the memory with bytes i .. n - 1 of value written at addr + i
RECURSIVE write_bytes(_, _, _, _, _)
write_bytes(memory, addr, value, i, n) ==
    IF i = n THEN memory
    ELSE write_bytes(SetByte(memory, wrapping_add(addr, i), Limb(value, i)),
                     addr, value, i + 1, n)

\* MemoryInterface::write_mem: the low `size` bytes of value go to addr,
\* in little-endian order; nothing is written when the access leaves the
\* memory
write_mem(memory, addr, size, value) ==
    IF ~InMemory(addr, size) THEN [ok |-> FALSE, memory |-> memory]
    ELSE [ok |-> TRUE,
          memory |-> write_bytes(memory, addr, value, 0, SizeOf(size))]

---------------------------------------------------------------------------
(* utils.rs: the load and store helpers.  A helper returns the error (or  *)
(* "None") and the Vm it leaves.                                          *)

\* an alignment mask that lets every address pass
align_mask_none(mem_chuck_size) == \h0

align_mask(mem_chuck_size) ==
    CASE mem_chuck_size = "BYTE" -> \h0
      [] mem_chuck_size = "HALF_WORD" -> \h1
      [] mem_chuck_size = "WORD_SIZE" -> \h3

\* (load_data as i8) as i32, (load_data as i16) as i32, load_data as i32
sign_extend(load_data, mem_chuck_size) ==
    CASE mem_chuck_size = "BYTE" ->
             LET b == Lo(load_data) % Two8
             IN  IF b >= 128 THEN b - Two8 ELSE b
      [] mem_chuck_size = "HALF_WORD" ->
             LET h == Lo(load_data)
             IN  IF h >= Two15 THEN h - Two16 ELSE h
      [] mem_chuck_size = "WORD_SIZE" -> load_data

\* the effective address of a load or a store: reg[rs1] + imm, wrapping
effective_addr(vm, form) ==
    wrapping_add(read_reg(vm.registers, form.rs1), form.imm)

\* a load that sign-extends whether or not it is signed
extend_signed(load_data, mem_chuck_size, is_signed) ==
    sign_extend(load_data, mem_chuck_size)

\* if is_signed { load_data = (.. sign extension ..) as u32 }
extend(load_data, mem_chuck_size, is_signed) ==
    IF is_signed THEN sign_extend(load_data, mem_chuck_size) ELSE load_data

\* the tail of process_load_to_reg, from the result of read_mem on
load_data_to_reg(vm, itype, mem_chuck_size, is_signed, got) ==
    IF ~got.some THEN [err |-> "MemoryLoadError", vm |-> vm]
    ELSE [err |-> "None",
          vm |-> [vm EXCEPT !.registers =
                     write_reg(vm.registers, itype.rd,
                               extend(got.value, mem_chuck_size, is_signed))]]

\* a load that reads memory and writes rd first, and checks the alignment
\* of the address afterwards
load_from_write_first(vm, itype, mem_chuck_size, is_signed, addr) ==
    IF And32(addr, align_mask(mem_chuck_size)) # 0
    THEN [err |-> "MemoryError",
          vm |-> load_data_to_reg(vm, itype, mem_chuck_size, is_signed,
                                  read_mem(vm.memory, addr,
                                           mem_chuck_size)).vm]
    ELSE load_data_to_reg(vm, itype, mem_chuck_size, is_signed,
                          read_mem(vm.memory, addr, mem_chuck_size))

\* process_load_to_reg, from the effective address on
load_from(vm, itype, mem_chuck_size, is_signed, addr) ==
    IF And32(addr, align_mask(mem_chuck_size)) # 0
    THEN [err |-> "MemoryError", vm |-> vm]
    ELSE load_data_to_reg(vm, itype, mem_chuck_size, is_signed,
                          read_mem(vm.memory, addr, mem_chuck_size))

\* process_load_to_reg
process_load_to_reg(vm, itype, mem_chuck_size, is_signed) ==
    load_from(vm, itype, mem_chuck_size, is_signed,
              effective_addr(vm, itype))

\* the tail of process_store_to_memory, from the result of write_mem on
stored(vm, put) ==
    IF ~put.ok THEN [err |-> "MemoryStoreError", vm |-> vm]
    ELSE [err |-> "None", vm |-> [vm EXCEPT !.memory = put.memory]]

\* process_store_to_memory, from the effective address on
store_to(vm, stype, mem_chuck_size, addr) ==
    IF And32(addr, align_mask(mem_chuck_size)) # 0
    THEN [err |-> "MemoryError", vm |-> vm]
    ELSE stored(vm, write_mem(vm.memory, addr, mem_chuck_size,
                              read_reg(vm.registers, stype.rs2)))

\* process_store_to_memory (called by vm.rs, not defined in utils.rs; it
\* follows section 4.4 of the specification): the low bytes of reg[rs2]
\* go to reg[rs1] + imm, after the same alignment check as a load
process_store_to_memory(vm, stype, mem_chuck_size) ==
    store_to(vm, stype, mem_chuck_size, effective_addr(vm, stype))

---------------------------------------------------------------------------
(* vm.rs: the Vm, step and run.  A Vm is the record of its five fields.   *)
(* `a + b` and `a += b` on u32 wrap in a build without overflow checks    *)
(* and panic on overflow in a build with them; overflow_checks says which *)
(* build runs.                                                            *)

\* Vm::new
Vm_new ==
    [registers |-> Registers_new, memory |-> Memory_new, pc |-> 0,
     running |-> FALSE, exit_code |-> 0]

\* a + b on u32
add_u32(a, b, overflow_checks) ==
    [panic |-> overflow_checks /\ add_overflows(a, b),
     value |-> wrapping_add(a, b)]

\* self.pc = sum; Ok(true), unless the sum panicked
set_pc(vm, sum) ==
    IF sum.panic THEN [res |-> "panic", vm |-> vm]
    ELSE [res |-> "Ok(true)", vm |-> [vm EXCEPT !.pc = sum.value]]

\* self.pc += d; Ok(true)
pc_add_assign(vm, d, overflow_checks) ==
    set_pc(vm, add_u32(vm.pc, d, overflow_checks))

\* a write of rd that forgets self.pc += 4
write_rd_only(vm, rd, value, overflow_checks) ==
    [res |-> "Ok(true)",
     vm |-> [vm EXCEPT !.registers = write_reg(vm.registers, rd, value)]]

\* self.registers.write_reg(rd, value); self.pc += 4; Ok(true)
write_rd_and_advance(vm, rd, value, overflow_checks) ==
    pc_add_assign([vm EXCEPT !.registers = write_reg(vm.registers, rd, value)],
                  4, overflow_checks)

\* enum VMErrors
Errors ==
    {"InvalidInstruction", "InvalidMemoryAccess", "EnvironmentError",
     "InvalidOpcode", "MemoryError", "MemoryLoadError", "MemoryStoreError"}

StepErr(e, vm) == [res |-> e, vm |-> vm]

\* the R-type arm: the value for rd, or no value for an undefined
\* (funct3, funct7)
rtype_value(rtype, rs1, rs2) ==
    LET f3 == rtype.funct3
        f7 == rtype.funct7
        V(x) == [ok |-> TRUE, rd |-> x]
    IN  CASE f3 = \b000 /\ f7 = \b0000000 -> V(wrapping_add(rs1, rs2))
          [] f3 = \b000 /\ f7 = \b0100000 -> V(wrapping_sub(rs1, rs2))
          [] f3 = \b000 /\ f7 = \b0000001 -> V(wrapping_mul(rs1, rs2))
          [] f3 = \b001 /\ f7 = \b0000000 -> V(wrapping_shl(rs1, rs2))
          [] f3 = \b001 /\ f7 = \b0000001 -> V(mulh(rs1, rs2))
          [] f3 = \b010 /\ f7 = \b0000000 ->
                 V(IF SLt(rs1, rs2) THEN 1 ELSE 0)
          [] f3 = \b010 /\ f7 = \b0000001 -> V(mulhsu(rs1, rs2))
          [] f3 = \b011 /\ f7 = \b0000000 ->
                 V(IF ULt(rs1, rs2) THEN 1 ELSE 0)
          [] f3 = \b011 /\ f7 = \b0000001 -> V(mulhu(rs1, rs2))
          [] f3 = \b100 /\ f7 = \b0000000 -> V(Xor32(rs1, rs2))
          [] f3 = \b100 /\ f7 = \b0000001 ->
                 V(IF rs2 # 0 THEN wrapping_div(rs1, rs2)
                   ELSE Hex(\hffff, \hffff))
          [] f3 = \b101 /\ f7 = \b0000000 -> V(wrapping_shr(rs1, rs2))
          [] f3 = \b101 /\ f7 = \b0000001 ->
                 V(IF rs2 # 0 THEN udiv(rs1, rs2) ELSE Hex(\hffff, \hffff))
          [] f3 = \b101 /\ f7 = \b0100000 -> V(wrapping_shr_i32(rs1, rs2))
          [] f3 = \b110 /\ f7 = \b0000000 -> V(Or32(rs1, rs2))
          [] f3 = \b110 /\ f7 = \b0000001 ->
                 V(IF rs2 # 0 THEN wrapping_rem(rs1, rs2) ELSE rs1)
          [] f3 = \b111 /\ f7 = \b0000000 -> V(And32(rs1, rs2))
          [] f3 = \b111 /\ f7 = \b0000001 ->
                 V(IF rs2 # 0 THEN urem(rs1, rs2) ELSE rs1)
          [] OTHER -> [ok |-> FALSE, rd |-> 0]

\* write the value to rd and go on, or fail for an undefined form
write_value(vm, rd, v, overflow_checks) ==
    IF v.ok THEN write_rd_and_advance(vm, rd, v.rd, overflow_checks)
    ELSE StepErr("InvalidOpcode", vm)

\* an R-type arm in which a division by zero is an error
exec_rtype_div_faults(vm, rtype, overflow_checks) ==
    IF /\ rtype.funct7 = \b0000001
       /\ rtype.funct3 \in {\b100, \b101, \b110, \b111}
       /\ read_reg(vm.registers, rtype.rs2) = 0
    THEN StepErr("InvalidOpcode", vm)
    ELSE write_value(vm, rtype.rd,
                     rtype_value(rtype, read_reg(vm.registers, rtype.rs1),
                                 read_reg(vm.registers, rtype.rs2)),
                     overflow_checks)

\* the R-type arm
exec_rtype(vm, rtype, overflow_checks) ==
    write_value(vm, rtype.rd,
                rtype_value(rtype, read_reg(vm.registers, rtype.rs1),
                            read_reg(vm.registers, rtype.rs2)),
                overflow_checks)

\* the op-imm arm (opcode 0b0010011): the value for rd, or no value
immediate_value(itype, metadata, rs1) ==
    LET f3 == itype.funct3
        imm == itype.imm
        V(x) == [ok |-> TRUE, rd |-> x]
    IN  CASE f3 = \b000 -> V(wrapping_add(rs1, imm))
          [] f3 = \b001 -> V(wrapping_shl(rs1, metadata.imm_shift_amt))
          [] f3 = \b010 -> V(IF SLt(rs1, imm) THEN 1 ELSE 0)
          [] f3 = \b011 -> V(IF ULt(rs1, imm) THEN 1 ELSE 0)
          [] f3 = \b100 -> V(Xor32(rs1, imm))
          [] f3 = \b101 /\ metadata.funct7 = \b0000000 ->
                 V(wrapping_shr(rs1, metadata.imm_shift_amt))
          [] f3 = \b101 /\ metadata.funct7 = \b0100000 ->
                 V(wrapping_shr_i32(rs1, metadata.imm_shift_amt))
          [] f3 = \b110 -> V(Or32(rs1, imm))
          [] f3 = \b111 -> V(And32(rs1, imm))
          [] OTHER -> [ok |-> FALSE, rd |-> 0]

\* match helper(..) { Ok(_) => { self.pc += 4; Ok(true) }, Err(e) => Err(e) }
advance_if_ok(r, overflow_checks) ==
    IF r.err = "None" THEN pc_add_assign(r.vm, 4, overflow_checks)
    ELSE StepErr(r.err, r.vm)

\* the width and the signedness of a load, by funct3
load_kind(funct3) ==
    CASE funct3 = \b000 -> [ok |-> TRUE, size |-> "BYTE", signed |-> TRUE]
      [] funct3 = \b001 ->
             [ok |-> TRUE, size |-> "HALF_WORD", signed |-> TRUE]
      [] funct3 = \b010 ->
             [ok |-> TRUE, size |-> "WORD_SIZE", signed |-> FALSE]
      [] funct3 = \b100 -> [ok |-> TRUE, size |-> "BYTE", signed |-> FALSE]
      [] funct3 = \b101 ->
             [ok |-> TRUE, size |-> "HALF_WORD", signed |-> FALSE]
      [] OTHER -> [ok |-> FALSE, size |-> "BYTE", signed |-> FALSE]

load_as(vm, itype, kind, overflow_checks) ==
    IF ~kind.ok THEN StepErr("InvalidOpcode", vm)
    ELSE advance_if_ok(process_load_to_reg(vm, itype, kind.size, kind.signed),
                       overflow_checks)

\* the load arm (opcode 0b0000011)
exec_load(vm, itype, overflow_checks) ==
    load_as(vm, itype, load_kind(itype.funct3), overflow_checks)

\* self.registers.write_reg(rd, self.pc + 4); self.pc = dest_addr; Ok(true)
link_and_jump(vm, rd, link, dest_addr) ==
    IF link.panic THEN [res |-> "panic", vm |-> vm]
    ELSE [res |-> "Ok(true)",
          vm |-> [vm EXCEPT
                    !.registers = write_reg(vm.registers, rd, link.value),
                    !.pc = dest_addr]]

\* the jalr arm writing the link before it reads rs1
exec_jalr_link_first(vm, itype, overflow_checks) ==
    IF itype.funct3 # \b000 THEN StepErr("InvalidOpcode", vm)
    ELSE LET linked == [vm EXCEPT !.registers =
                           write_reg(vm.registers, itype.rd,
                                     wrapping_add(vm.pc, 4))]
         IN  link_and_jump(vm, itype.rd, add_u32(vm.pc, 4, overflow_checks),
                           And32(effective_addr(linked, itype),
                                 Hex(\hffff, \hfffe)))

\* the jalr arm without dest_addr &= 0xfffffffe
exec_jalr_unmasked(vm, itype, overflow_checks) ==
    IF itype.funct3 # \b000 THEN StepErr("InvalidOpcode", vm)
    ELSE link_and_jump(vm, itype.rd, add_u32(vm.pc, 4, overflow_checks),
                       effective_addr(vm, itype))

\* the jalr arm (opcode 0b1100111)
exec_jalr(vm, itype, overflow_checks) ==
    IF itype.funct3 # \b000 THEN StepErr("InvalidOpcode", vm)
    ELSE link_and_jump(vm, itype.rd, add_u32(vm.pc, 4, overflow_checks),
                       And32(effective_addr(vm, itype), Hex(\hffff, \hfffe)))

exec_itype(vm, itype, opcode, metadata, overflow_checks) ==
    CASE opcode = \b0010011 ->
             write_value(vm, itype.rd,
                         immediate_value(itype, metadata,
                                         read_reg(vm.registers, itype.rs1)),
                         overflow_checks)
      [] opcode = \b0000011 -> exec_load(vm, itype, overflow_checks)
      [] opcode = \b1100111 -> exec_jalr(vm, itype, overflow_checks)
      [] OTHER -> StepErr("InvalidOpcode", vm)

\* the width of a store, by funct3
store_kind(funct3) ==
    CASE funct3 = \b000 -> [ok |-> TRUE, size |-> "BYTE"]
      [] funct3 = \b001 -> [ok |-> TRUE, size |-> "HALF_WORD"]
      [] funct3 = \b010 -> [ok |-> TRUE, size |-> "WORD_SIZE"]
      [] OTHER -> [ok |-> FALSE, size |-> "BYTE"]

store_as(vm, stype, kind, overflow_checks) ==
    IF ~kind.ok THEN StepErr("InvalidOpcode", vm)
    ELSE advance_if_ok(process_store_to_memory(vm, stype, kind.size),
                       overflow_checks)

\* the S-type arm
exec_stype(vm, stype, overflow_checks) ==
    store_as(vm, stype, store_kind(stype.funct3), overflow_checks)

\* the condition of a branch, or no condition for an undefined funct3
branch_taken(funct3, rs1, rs2) ==
    CASE funct3 = \b000 -> [ok |-> TRUE, taken |-> rs1 = rs2]
      [] funct3 = \b001 -> [ok |-> TRUE, taken |-> rs1 # rs2]
      [] funct3 = \b100 -> [ok |-> TRUE, taken |-> SLt(rs1, rs2)]
      [] funct3 = \b101 -> [ok |-> TRUE, taken |-> ~SLt(rs1, rs2)]
      [] funct3 = \b110 -> [ok |-> TRUE, taken |-> ULt(rs1, rs2)]
      [] funct3 = \b111 -> [ok |-> TRUE, taken |-> ~ULt(rs1, rs2)]
      [] OTHER -> [ok |-> FALSE, taken |-> FALSE]

\* if cond { self.pc += btype.imm as u32 } else { self.pc += 4 }; Ok(true)
branch(vm, btype, c, overflow_checks) ==
    IF ~c.ok THEN StepErr("InvalidOpcode", vm)
    ELSE IF c.taken THEN pc_add_assign(vm, btype.imm, overflow_checks)
    ELSE pc_add_assign(vm, 4, overflow_checks)

\* the B-type arm
exec_btype(vm, btype, overflow_checks) ==
    branch(vm, btype,
           branch_taken(btype.funct3, read_reg(vm.registers, btype.rs1),
                        read_reg(vm.registers, btype.rs2)),
           overflow_checks)

\* self.registers.write_reg(rd, pc + imm); self.pc += 4; Ok(true)
write_sum_and_advance(vm, rd, sum, overflow_checks) ==
    IF sum.panic THEN [res |-> "panic", vm |-> vm]
    ELSE write_rd_and_advance(vm, rd, sum.value, overflow_checks)

\* the U-type arm
exec_utype(vm, utype, opcode, overflow_checks) ==
    CASE opcode = \b0110111 ->
             write_rd_and_advance(vm, utype.rd, utype.imm, overflow_checks)
      [] opcode = \b0010111 ->
             write_sum_and_advance(vm, utype.rd,
                                   add_u32(vm.pc, utype.imm, overflow_checks),
                                   overflow_checks)
      [] OTHER -> StepErr("InvalidOpcode", vm)

\* self.pc += jtype.imm as u32, after self.pc += 4
then_add_imm(first, imm, overflow_checks) ==
    IF first.res = "panic" THEN first
    ELSE pc_add_assign(first.vm, imm, overflow_checks)

\* the J-type arm: self.pc += 4; self.pc += jtype.imm as u32; Ok(true)
exec_jtype(vm, jtype, opcode, overflow_checks) ==
    IF opcode # \b1101111 THEN StepErr("InvalidOpcode", vm)
    ELSE then_add_imm(pc_add_assign(vm, 4, overflow_checks), jtype.imm,
                      overflow_checks)

\* a fetch from the word after pc
fetch_addr_next(vm) == wrapping_add(vm.pc, 4)

\* the address step reads its instruction from
fetch_addr(vm) == vm.pc

\* the execute stage of step: dispatch on the decoded form
execute(vm, d, overflow_checks) ==
    IF d.err # "None" THEN StepErr(d.err, vm)
    ELSE CASE d.tag = "RType" -> exec_rtype(vm, d.form, overflow_checks)
           [] d.tag = "IType" ->
                  exec_itype(vm, d.form, d.opcode, d.metadata,
                             overflow_checks)
           [] d.tag = "SType" -> exec_stype(vm, d.form, overflow_checks)
           [] d.tag = "BType" -> exec_btype(vm, d.form, overflow_checks)
           [] d.tag = "UType" ->
                  exec_utype(vm, d.form, d.opcode, overflow_checks)
           [] d.tag = "JType" ->
                  exec_jtype(vm, d.form, d.opcode, overflow_checks)

\* the decode stage of step, given the result of the fetch
decode_and_execute(vm, instruction, overflow_checks) ==
    IF ~instruction.some THEN StepErr("InvalidMemoryAccess", vm)
    ELSE execute(vm, decode(instruction.value), overflow_checks)

\* Vm::step: the result (Ok(true), an error of VMErrors, or panic) and the
\* Vm it leaves
step(vm, overflow_checks) ==
    decode_and_execute(vm, read_mem(vm.memory, fetch_addr(vm), "WORD_SIZE"),
                       overflow_checks)

\* a driver that prints the error and goes on with the loop
run_match_no_halt(s) ==
    CASE s.res = "Ok(true)" ->
             [ctl |-> "run", vm |-> s.vm, res |-> s.res, eprintln |-> FALSE]
      [] s.res = "Ok(false)" ->
             [ctl |-> "idle", vm |-> s.vm, res |-> s.res, eprintln |-> FALSE]
      [] s.res = "panic" ->
             [ctl |-> "panicked", vm |-> s.vm, res |-> s.res,
              eprintln |-> FALSE]
      [] OTHER ->
             [ctl |-> "run", vm |-> s.vm, res |-> s.res,
              eprintln |-> s.res # "EnvironmentError"]

\* the match of Vm::run leaving the loop on an error without clearing
\* self.running
run_match_keeps_running(s) ==
    CASE s.res = "Ok(true)" ->
             [ctl |-> "run", vm |-> s.vm, res |-> s.res, eprintln |-> FALSE]
      [] s.res = "Ok(false)" ->
             [ctl |-> "idle", vm |-> s.vm, res |-> s.res, eprintln |-> FALSE]
      [] s.res = "panic" ->
             [ctl |-> "panicked", vm |-> s.vm, res |-> s.res,
              eprintln |-> FALSE]
      [] OTHER ->
             [ctl |-> "idle", vm |-> s.vm, res |-> s.res,
              eprintln |-> s.res # "EnvironmentError"]

\* the match of Vm::run on the result of step: the Vm it leaves, whether
\* the loop goes on ("run") or run returns ("idle"), and whether the
\* error was printed with eprintln!
run_match(s) ==
    CASE s.res = "Ok(true)" ->
             [ctl |-> "run", vm |-> s.vm, res |-> s.res, eprintln |-> FALSE]
      [] s.res = "Ok(false)" ->
             [ctl |-> "idle", vm |-> s.vm, res |-> s.res, eprintln |-> FALSE]
      [] s.res = "panic" ->
             [ctl |-> "panicked", vm |-> s.vm, res |-> s.res,
              eprintln |-> FALSE]
      [] OTHER ->
             [ctl |-> "idle", vm |-> [s.vm EXCEPT !.running = FALSE],
              res |-> s.res, eprintln |-> s.res # "EnvironmentError"]

\* the entry of Vm::run with every register cleared
run_enter_reset(vm) ==
    [vm EXCEPT !.running = TRUE, !.registers = Registers_new]

\* the entry of Vm::run: self.running = true
run_enter(vm) == [vm EXCEPT !.running = TRUE]

\* one turn of the loop of Vm::run, entered with self.running true
run_iteration(vm, overflow_checks) == run_match(step(vm, overflow_checks))

---------------------------------------------------------------------------
(* Inputs: instruction words, written with the ISA's encodings, and the   *)
(* images the ELF loader hands to Vm::from_bin_elf.                       *)

\* the word with the six fields of the R layout
Encode(funct7, rs2, rs1, funct3, rd, opcode) ==
    Word(funct7 * 512 + rs2 * 16 + (rs1 \div 2),
         (rs1 % 2) * Two15 + funct3 * 4096 + rd * 128 + opcode)

EncR(funct7, rs2, rs1, funct3, rd) ==
    Encode(funct7, rs2, rs1, funct3, rd, REGISTER_CLASS)

EncI(imm, rs1, funct3, rd, opcode) ==
    Encode((imm % 4096) \div 32, imm % 32, rs1, funct3, rd, opcode)

EncS(imm, rs2, rs1, funct3) ==
    Encode((imm % 4096) \div 32, rs2, rs1, funct3, imm % 32, STORE_CLASS)

EncB(imm, rs2, rs1, funct3) ==
    LET u == imm % 8192
    IN  Encode((u \div 4096) * 64 + ((u \div 32) % 64), rs2, rs1, funct3,
               ((u \div 2) % 16) * 2 + ((u \div 2048) % 2), BRANCH_CLASS)

EncU(imm20, rd, opcode) ==
    Word(imm20 \div 16, (imm20 % 16) * 4096 + rd * 128 + opcode)

EncJ(imm, rd) ==
    LET u == imm % (2 ^ 21)
    IN  EncU((u \div (2 ^ 20)) * (2 ^ 19) + ((u \div 2) % 1024) * 512
             + ((u \div 2048) % 2) * 256 + ((u \div 4096) % 256),
             rd, JAL_CLASS)

ADDI(rd, rs1, imm) == EncI(imm, rs1, \b000, rd, IMMEDIATE_CLASS)
NOP == ADDI(0, 0, 0)
LUI(rd, imm20) == EncU(imm20, rd, UPPER_IMMEDIATE_CLASS)
AUIPC(rd, imm20) == EncU(imm20, rd, \b0010111)
JAL(rd, imm) == EncJ(imm, rd)
JALR(rd, rs1, imm) == EncI(imm, rs1, \b000, rd, JALR_CLASS)
LOAD(funct3, rd, rs1, imm) == EncI(imm, rs1, funct3, rd, IMMEDIATE_LOAD_CLASS)
LB(rd, rs1, imm) == LOAD(\b000, rd, rs1, imm)
LH(rd, rs1, imm) == LOAD(\b001, rd, rs1, imm)
LW(rd, rs1, imm) == LOAD(\b010, rd, rs1, imm)
LBU(rd, rs1, imm) == LOAD(\b100, rd, rs1, imm)
LHU(rd, rs1, imm) == LOAD(\b101, rd, rs1, imm)
SB(rs2, rs1, imm) == EncS(imm, rs2, rs1, \b000)
SH(rs2, rs1, imm) == EncS(imm, rs2, rs1, \b001)
SW(rs2, rs1, imm) == EncS(imm, rs2, rs1, \b010)
BEQ(rs1, rs2, imm) == EncB(imm, rs2, rs1, \b000)
ECALL == Encode(0, 0, 0, 0, 0, ENVIRONMENT_CLASS)
EBREAK == Encode(0, 1, 0, 0, 0, ENVIRONMENT_CLASS)
MRET == Encode(\b0011000, 2, 0, 0, 0, ENVIRONMENT_CLASS)

\* the R-type words: every (funct3, funct7) of the table on x3, x1, x2,
\* one with rd = x0, and two undefined combinations
RWords ==
    {EncR(f7, 2, 1, f3, 3) : f3 \in 0 .. 7, f7 \in {\b0000000, \b0000001}}
    \cup {EncR(\b0100000, 2, 1, \b000, 3), EncR(\b0100000, 2, 1, \b101, 3),
          EncR(\b0000000, 2, 1, \b000, 0),
          EncR(\b0100000, 2, 1, \b001, 3), EncR(\b1111111, 2, 1, \b000, 3)}

\* the op-imm words, with the shift immediates and an undefined one
ImmWords ==
    {EncI(-3, 1, f3, 3, IMMEDIATE_CLASS) : f3 \in {0, 2, 3, 4, 6, 7}}
    \cup {ADDI(0, 1, 5), ADDI(1, 1, 1),
          EncI(4, 1, \b001, 3, IMMEDIATE_CLASS),
          EncI(4, 1, \b101, 3, IMMEDIATE_CLASS),
          EncI(1024 + 4, 1, \b101, 3, IMMEDIATE_CLASS),
          EncI(512 + 4, 1, \b101, 3, IMMEDIATE_CLASS)}

\* the loads: every width at 0(x2) and 2(x2), one into x0, one at the top
\* of the address space, and an undefined funct3
LoadWords ==
    {LOAD(f3, 3, 2, off) : f3 \in {0, 1, 2, 4, 5}, off \in {0, 2}}
    \cup {LW(0, 2, 0), LW(3, 0, -4), LBU(3, 2, 1), LOAD(\b011, 3, 2, 0)}

\* the stores, likewise
StoreWords ==
    {EncS(off, 1, 2, f3) : f3 \in {0, 1, 2}, off \in {0, 2}}
    \cup {SB(1, 2, 1), SW(1, 0, -4), EncS(0, 1, 2, \b011)}

\* the branches: every funct3, forward and backward, on x1 and x2; one
\* with an offset that is not a multiple of 4; an undefined funct3
BranchWords ==
    {EncB(imm, 2, 1, f3) : f3 \in {0, 1, 4, 5, 6, 7}, imm \in {8, -8}}
    \cup {BEQ(0, 0, 6), BEQ(0, 0, -12), EncB(8, 2, 1, \b010)}

JumpWords ==
    {JAL(1, 8), JAL(1, -8), JAL(0, 8), JALR(1, 2, 0), JALR(1, 1, 3),
     JALR(0, 2, -4), EncI(0, 2, \b001, 1, JALR_CLASS)}

OtherWords ==
    {LUI(3, 74565), LUI(0, 1), AUIPC(3, 1), ECALL, EBREAK, MRET,
     0, Hex(\hffff, \hffff), Hex(\hdead, \hbeef)}

\* more shift immediates: shift amounts 0, 17 and 31, and SLLI, SRLI and
\* SRAI words whose insn[31:25] is not one the ISA defines
ShiftImmWords ==
    {EncI(31, 1, \b001, 3, IMMEDIATE_CLASS),
     EncI(17, 1, \b101, 3, IMMEDIATE_CLASS),
     EncI(1024 + 31, 1, \b101, 3, IMMEDIATE_CLASS),
     EncI(1024, 1, \b101, 3, IMMEDIATE_CLASS),
     EncI(1024 + 4, 1, \b001, 3, IMMEDIATE_CLASS),
     EncI(32 + 4, 1, \b001, 3, IMMEDIATE_CLASS),
     EncI(32 + 4, 1, \b101, 3, IMMEDIATE_CLASS),
     EncI(-2048 + 4, 1, \b101, 3, IMMEDIATE_CLASS)}

Words ==
    RWords \cup ImmWords \cup LoadWords \cup StoreWords \cup BranchWords
    \cup JumpWords \cup OtherWords \cup ShiftImmWords

\* an image: {instructions, pc_base, pc_start}
Image(instructions, pc_start) ==
    [instructions |-> instructions, pc_base |-> 0, pc_start |-> pc_start]

\* an image loaded at pc_base
ImageAt(instructions, pc_base, pc_start) ==
    [instructions |-> instructions, pc_base |-> pc_base,
     pc_start |-> pc_start]

\* one word behind two NOPs, entered at the word
OneWordImages == {Image(<<NOP, NOP, w>>, 8) : w \in Words}

\* the end-to-end scenarios
Scenario1 == Image(<<\h00500093>>, 0)
Scenario2 == Image(<<\h00500093, \h00300113, \h002081B3, \h402081B3>>, 0)
Scenario3 ==
    Image(<<\h00500093, \h00500113, \h00208463, Hex(\hdead, \hbeef),
            \h00000013>>, 0)
Scenario4 ==
    Image(<<LUI(1, 74565), ADDI(1, 1, 1656), ADDI(2, 0, 256),
            SW(1, 2, 0), LW(3, 2, 0), LBU(4, 2, 0)>>, 0)
Scenario5 == Image([i \in 1 .. 17 |-> IF i = 17 THEN JAL(1, 32) ELSE NOP], 64)
Scenario6 == Image(<<ADDI(1, 0, 5), ECALL>>, 0)

\* byte and halfword stores read back at every width
StoreLoadImages ==
    {Image(<<SB(1, 2, 1), LBU(3, 2, 1), LB(4, 2, 1)>>, 0),
     Image(<<SB(1, 2, 3), LBU(3, 2, 3), LW(4, 2, 0)>>, 0),
     Image(<<SH(1, 2, 2), LHU(3, 2, 2), LH(4, 2, 2)>>, 0),
     Image(<<SW(1, 2, 0), SB(2, 2, 0), LW(3, 2, 0)>>, 0),
     Image(<<SW(1, 2, 0), LBU(3, 2, 3), LHU(4, 2, 2)>>, 0)}

\* a branch stored at 0xFFFFFFF8, the last word that can be fetched, and
\* entered by a JALR: BEQ x0, x0, +16 there passes 2^32
TopBranch ==
    Image(<<LUI(1, 1), ADDI(1, 1, -1949), SW(1, 0, -8), JALR(0, 0, -8)>>, 0)

\* a loop that counts x1 down from 2 and halts
CountDown ==
    Image(<<ADDI(1, 0, 2), ADDI(1, 1, -1), EncB(-4, 0, 1, \b001), ECALL>>, 0)

\* DIV and REM of i32::MIN (LUI x1, 0x80000) by -1
DivOverflow ==
    Image(<<LUI(1, 524288), ADDI(2, 0, -1), EncR(\b0000001, 2, 1, \b100, 3),
            EncR(\b0000001, 2, 1, \b110, 4)>>, 0)

\* SLL, SRL and SRA of x1 by x2, for shift amounts of 32 and more in x2
ShiftImages ==
    {Image(<<ADDI(2, 0, s), EncR(\b0000000, 2, 1, \b001, 3),
             EncR(\b0000000, 2, 1, \b101, 4),
             EncR(\b0100000, 2, 1, \b101, 5)>>, 0) : s \in {33, 63, -4}}

\* two instructions loaded at pc_base = 8 and entered there
Based == ImageAt(<<ADDI(1, 0, 5), ADDI(2, 0, 7)>>, 8, 8)

Images ==
    OneWordImages \cup StoreLoadImages \cup ShiftImages
    \cup {Scenario1, Scenario2, Scenario3, Scenario4, Scenario5, Scenario6,
          TopBranch, CountDown, DivOverflow, Based}

\* the values and the registers the host writes before the first step
HostValues == {1, Hex(\hffff, \hffff), \h100, \h12345678}
HostRegisters == {0, 1, 2}

\* the number of successful steps (step calls and loop turns), and of host
\* writes, explored
MaxSteps == 6
MaxHostWrites == 2

---------------------------------------------------------------------------
(* The state machine *)

VARIABLES
    registers,        \* Vm.registers
    memory,           \* Vm.memory
    pc,               \* Vm.pc
    running,          \* Vm.running
    exit_code,        \* Vm.exit_code
    overflow_checks,  \* the build: are u32 overflows checked
    ctl,              \* "idle", "run" (inside the loop of run), "panicked"
    image,            \* the image the Vm was made from
    last,             \* the last call: what it was, its result, whether
                      \* it printed an error
    shadow,           \* byte address |-> the byte a store last put there
    nsteps,           \* successful steps so far
    nwrites,          \* host writes so far
    halted_by         \* inside and after a run called on a Vm that a run
                      \* had halted: the error that halted it; else "None"

vars == <<registers, memory, pc, running, exit_code, overflow_checks, ctl,
          image, last, shadow, nsteps, nwrites, halted_by>>

\* the Vm as a record
VM ==
    [registers |-> registers, memory |-> memory, pc |-> pc,
     running |-> running, exit_code |-> exit_code]

SetVM(vm) ==
    /\ registers' = vm.registers
    /\ memory' = vm.memory
    /\ pc' = vm.pc
    /\ running' = vm.running
    /\ exit_code' = vm.exit_code

\* Vm::from_bin_elf, given the decoded image
made_from(img, loaded) ==
    [panic |-> loaded.panic,
     vm |-> [registers |-> Registers_new, memory |-> loaded.memory,
             pc |-> img.pc_start, running |-> FALSE, exit_code |-> 0]]

from_bin_elf(img) ==
    made_from(img, new_with_load_program(img.instructions, img.pc_base))

\* the bytes a store of n bytes of value at addr puts in memory, as the
\* ISA has them: byte i of value at addr + i
StoredBytes(addr, value, n) ==
    [a \in {wrapping_add(addr, i) : i \in 0 .. (n - 1)} |->
        Limb(value, CHOOSE i \in 0 .. (n - 1) : wrapping_add(addr, i) = a)]

\* the shadow with the bytes `put` on top
Overlay(sh, put) ==
    [a \in (DOMAIN sh) \cup (DOMAIN put) |->
        IF a \in DOMAIN put THEN put[a] ELSE sh[a]]

\* the shadow after the store st, executed from vm
ShadowStore(vm, st) ==
    Overlay(shadow,
            StoredBytes(effective_addr(vm, st), read_reg(vm.registers, st.rs2),
                        CASE st.funct3 = \b000 -> 1
                          [] st.funct3 = \b001 -> 2
                          [] st.funct3 = \b010 -> 4
                          [] OTHER -> 0))

\* the word at pc
Fetched(vm) == read_mem(vm.memory, vm.pc, "WORD_SIZE").value

ShadowOf(vm, res, insn) ==
    IF res = "Ok(true)" /\ insn % 128 = STORE_CLASS
    THEN ShadowStore(vm, SType_new(insn))
    ELSE shadow

\* the shadow after a step from vm with result res
ShadowAfter(vm, res) == ShadowOf(vm, res, Fetched(vm))

Init ==
    /\ overflow_checks \in BOOLEAN
    /\ image \in Images
    /\ \E made \in {from_bin_elf(image)} :
          /\ ~made.panic
          /\ registers = made.vm.registers
          /\ memory = made.vm.memory
          /\ pc = made.vm.pc
          /\ running = made.vm.running
          /\ exit_code = made.vm.exit_code
    /\ ctl = "idle"
    /\ last = [op |-> "new", res |-> "None", reg |-> 0, eprintln |-> FALSE]
    /\ shadow = <<>>
    /\ nsteps = 0
    /\ nwrites = 0
    /\ halted_by = "None"

\* the host calls vm.registers.write_reg(r, v)
HostWriteReg ==
    /\ ctl = "idle"
    /\ nwrites < MaxHostWrites
    /\ nsteps = 0
    /\ \E r \in HostRegisters, v \in HostValues :
          /\ registers' = write_reg(registers, r, v)
          /\ last' = [op |-> "write_reg", res |-> "None", reg |-> r,
                      eprintln |-> FALSE]
    /\ nwrites' = nwrites + 1
    /\ halted_by' = "None"
    /\ UNCHANGED <<memory, pc, running, exit_code, overflow_checks, ctl,
                   image, shadow, nsteps>>

\* the host calls vm.step()
Step ==
    /\ ctl = "idle"
    /\ nsteps < MaxSteps
    /\ \E s \in {step(VM, overflow_checks)} :
           /\ SetVM(s.vm)
           /\ ctl' = IF s.res = "panic" THEN "panicked" ELSE "idle"
           /\ last' = [op |-> "step", res |-> s.res, reg |-> 0,
                       eprintln |-> FALSE]
           /\ shadow' = ShadowAfter(VM, s.res)
           /\ nsteps' = IF s.res = "Ok(true)" THEN nsteps + 1 ELSE nsteps
    /\ halted_by' = "None"
    /\ UNCHANGED <<overflow_checks, image, nwrites>>

\* the host calls vm.run(): self.running = true, and the loop is entered
RunEnter ==
    /\ ctl = "idle"
    /\ SetVM(run_enter(VM))
    /\ ctl' = "run"
    /\ last' = [op |-> "run", res |-> "None", reg |-> 0,
                eprintln |-> FALSE]
    /\ halted_by' = IF last.op = "run_iteration" /\ last.res \in Errors
                    THEN last.res
                    ELSE "None"
    /\ UNCHANGED <<overflow_checks, image, shadow, nsteps, nwrites>>

\* one turn of the loop of run; the loop ends, and run returns, when the
\* turn leaves ctl = "idle"
RunIteration ==
    /\ ctl = "run"
    /\ running
    /\ nsteps < MaxSteps
    /\ \E r \in {run_iteration(VM, overflow_checks)} :
           /\ SetVM(r.vm)
           /\ ctl' = r.ctl
           /\ last' = [op |-> "run_iteration", res |-> r.res, reg |-> 0,
                       eprintln |-> r.eprintln]
           /\ shadow' = ShadowAfter(VM, r.res)
           /\ nsteps' = IF r.res = "Ok(true)" THEN nsteps + 1 ELSE nsteps
    /\ UNCHANGED <<overflow_checks, image, nwrites, halted_by>>

Next ==
    \/ HostWriteReg
    \/ Step
    \/ RunEnter
    \/ RunIteration

Spec == Init /\ [][Next]_vars

---------------------------------------------------------------------------
(* Properties.  An action property [][A]_vars reads the state at the entry *)
(* of a call unprimed and the state the call leaves primed.                *)

\* the transition is a call of step, by the host or by the loop of run
IsStepCall == last'.op \in {"step", "run_iteration"}

\* the fetch at pc succeeds, and the word and the opcode it yields
FetchOk == read_mem(memory, pc, "WORD_SIZE").some
Insn == Fetched(VM)
Opcode == Lo(Insn) % 128

FatalErrors == Errors \ {"EnvironmentError"}

\* C1: register 0 always reads 0, and a write to index 0 changes no
\* register.
C1_RegisterZeroHardWired ==
    /\ [](read_reg(registers, 0) = 0)
    /\ [][(last'.op = "write_reg" /\ last'.reg = 0)
              => registers' = registers]_vars

\* a step has executed LUI x0, 1, an instruction whose rd is 0
C1_WriteToZeroDiscarded ==
    /\ image = Image(<<NOP, NOP, LUI(0, 1)>>, 8)
    /\ last.op = "step"
    /\ last.res = "Ok(true)"
    /\ pc = 12
    /\ registers = Registers_new

\* C2: when the loop of run fetches a word whose low 7 bits are 1110011,
\* run returns with running false and exit_code 0, prints no error, and
\* leaves registers, memory and PC as they were at the fetch.
C2_EnvironmentHaltsCleanly ==
    [][(ctl = "run" /\ last'.op = "run_iteration" /\ FetchOk
        /\ Opcode = ENVIRONMENT_CLASS)
           => /\ last'.res = "EnvironmentError"
              /\ ctl' = "idle"
              /\ ~running'
              /\ exit_code' = 0
              /\ ~last'.eprintln
              /\ registers' = registers
              /\ memory' = memory
              /\ pc' = pc]_vars

\* run has executed ADDI x1, x0, 5 and halted on the ECALL after it
C2_HaltedOnEcall ==
    /\ image = Scenario6
    /\ last.op = "run_iteration"
    /\ last.res = "EnvironmentError"
    /\ ctl = "idle"
    /\ ~running
    /\ exit_code = 0
    /\ pc = 4
    /\ registers[1] = 5

\* C3: a step that returns an error leaves registers, memory and PC as
\* they were at its entry.
C3_ErrorLeavesStateUnchanged ==
    [][(IsStepCall /\ last'.res \in Errors)
           => /\ registers' = registers
              /\ memory' = memory
              /\ pc' = pc]_vars

\* LW x3, -4(x0) has failed on its read of the last word of the address
\* space
C3_LoadFailed ==
    /\ image = Image(<<NOP, NOP, LW(3, 0, -4)>>, 8)
    /\ last.op = "step"
    /\ last.res = "MemoryLoadError"
    /\ pc = 8
    /\ registers[3] = 0

\* the opcodes of the instructions that are neither branches nor jumps:
\* R-type, op-imm, loads, stores, LUI, AUIPC
NonBranchOpcodes ==
    {REGISTER_CLASS, IMMEDIATE_CLASS, IMMEDIATE_LOAD_CLASS, STORE_CLASS,
     UPPER_IMMEDIATE_CLASS, \b0010111}

\* C4: a successful step of an instruction that is neither a branch nor a
\* jump leaves PC at the PC of its entry plus 4, modulo 2^32.
C4_NonBranchAdvancesByFour ==
    [][(IsStepCall /\ last'.res = "Ok(true)" /\ Opcode \in NonBranchOpcodes)
           => pc' = wrapping_add(pc, 4)]_vars

\* the four instructions of the add/sub scenario have run: x3 = 5 - 3
C4_FourStepsDone ==
    /\ image = Scenario2
    /\ nsteps = 4
    /\ last.res = "Ok(true)"
    /\ pc = 16
    /\ registers[3] = 2

\* C5: JAL writes the PC of its entry plus 4 to rd and leaves PC at the PC
\* of its entry plus the sign-extended J immediate.
C5_JalLinksAndJumps ==
    [][(IsStepCall /\ FetchOk /\ Opcode = JAL_CLASS)
           => /\ last'.res = "Ok(true)"
              /\ pc' = wrapping_add(pc, JType_new(Insn).imm)
              /\ registers' = write_reg(registers, JType_new(Insn).rd,
                                        wrapping_add(pc, 4))]_vars

\* JAL x1, +0x20 has run from PC = 0x40: x1 is still 0, and PC is 0x64
C5_JalFromHex40 ==
    /\ image = Scenario5
    /\ last.op = "step"
    /\ last.res = "Ok(true)"
    /\ nsteps = 1
    /\ pc = \h64
    /\ registers[1] = 0

\* the branch at pc, and whether its condition holds
Branch == BType_new(Insn)
BranchHolds ==
    branch_taken(Branch.funct3, read_reg(registers, Branch.rs1),
                 read_reg(registers, Branch.rs2)).taken

\* C6: a branch (BEQ, BNE, BLT, BGE, BLTU, BGEU) leaves PC at the PC of
\* its entry plus the sign-extended immediate, modulo 2^32, when its
\* condition holds, and at that PC plus 4 otherwise; it changes no register
\* and no memory cell.
C6_BranchAddsImmediateModulo ==
    [][(IsStepCall /\ FetchOk /\ Opcode = BRANCH_CLASS
        /\ Branch.funct3 \in {\b000, \b001, \b100, \b101, \b110, \b111})
           => /\ last'.res = "Ok(true)"
              /\ pc' = IF BranchHolds THEN wrapping_add(pc, Branch.imm)
                       ELSE wrapping_add(pc, 4)
              /\ registers' = registers
              /\ memory' = memory]_vars

\* the backward BNE x1, x0, -4 of the count-down loop, taken at PC = 8 in
\* a build that checks overflow, has panicked
C6_BackwardBranchPanicked ==
    /\ image = CountDown
    /\ overflow_checks
    /\ ctl = "panicked"
    /\ last.res = "panic"
    /\ pc = 8
    /\ registers[1] = 1

\* C7: a step decodes and executes the word at the PC of its entry and no
\* other; in the BEQ scenario the third step leaves PC = 16, and no step
\* fails before the PC has passed the last instruction of the image.
C7_StepExecutesWordAtPc ==
    /\ [](image = Scenario3
              => /\ nsteps = 3 => pc = 16
                 /\ last.res \in Errors \cup {"panic"} => pc = 20)
    /\ [][IsStepCall
              => \E s \in {decode_and_execute(
                               VM, read_mem(memory, pc, "WORD_SIZE"),
                               overflow_checks)} :
                     /\ last'.res = s.res
                     /\ registers' = s.vm.registers
                     /\ memory' = s.vm.memory
                     /\ pc' = s.vm.pc]_vars

\* three steps of the BEQ scenario have run: the branch was taken over
\* 0xDEADBEEF
C7_GarbageSkipped ==
    /\ image = Scenario3
    /\ nsteps = 3
    /\ last.res = "Ok(true)"
    /\ pc = 16
    /\ registers[1] = 5
    /\ registers[2] = 5

\* C8: when a step of the loop of run returns a fatal error, the error is
\* printed and run returns with running false; no part of run changes
\* exit_code.
C8_FatalErrorStopsRun ==
    [][/\ (last'.op = "run_iteration" /\ last'.res \in FatalErrors)
              => (ctl' = "idle" /\ ~running' /\ last'.eprintln)
       /\ last'.op \in {"run", "run_iteration"}
              => exit_code' = exit_code]_vars

\* run has stopped on the all-zero word, an invalid opcode
C8_StoppedOnInvalidOpcode ==
    /\ image = Image(<<NOP, NOP, 0>>, 8)
    /\ last.op = "run_iteration"
    /\ last.res = "InvalidOpcode"
    /\ last.eprintln
    /\ ctl = "idle"
    /\ ~running
    /\ exit_code = 0
    /\ pc = 8

\* the byte the image holds at address a: load_program puts word i of the
\* image at word index pc_base + i
ImageByte(a) ==
    IF a >= 0 /\ (a \div 4) - image.pc_base \in 0 .. (Len(image.instructions) - 1)
    THEN Limb(image.instructions[(a \div 4) - image.pc_base + 1], a % 4)
    ELSE 0

\* the byte a read at address a is to see: the byte a store last put
\* there, else the byte of the image, else 0
ExpectedByte(a) == IF a \in DOMAIN shadow THEN shadow[a] ELSE ImageByte(a)

\* the n bytes at a, a + 1, .. in little-endian order
ExpectedValue(a, n) ==
    FromBytes([i \in 0 .. 3 |->
                  IF i < n THEN ExpectedByte(wrapping_add(a, i)) ELSE 0])

\* a value of `bits` bits, sign-extended to 32
Signed(v, bits) == IF v >= 2 ^ (bits - 1) THEN v - 2 ^ bits ELSE v

\* the value a load with this funct3 at a is to write to rd
ExpectedLoad(a, funct3) ==
    CASE funct3 = \b000 -> Signed(ExpectedValue(a, 1), 8)
      [] funct3 = \b001 -> Signed(ExpectedValue(a, 2), 16)
      [] funct3 = \b010 -> ExpectedValue(a, 4)
      [] funct3 = \b100 -> ExpectedValue(a, 1)
      [] funct3 = \b101 -> ExpectedValue(a, 2)

\* the load at pc
Load == IType_new(Insn)

\* C9: a successful load writes to rd the bytes the stores before it last
\* put at its address, in little-endian order (bytes no store wrote read
\* as the image has them, 0 outside the image), sign- or zero-extended by
\* its funct3, and changes no other register.
C9_LoadSeesStoredBytes ==
    [][(IsStepCall /\ last'.res = "Ok(true)"
        /\ Opcode = IMMEDIATE_LOAD_CLASS)
           => \A r \in 0 .. 31 :
                  registers'[r] =
                      IF r = Load.rd /\ r # 0
                      THEN ExpectedLoad(effective_addr(VM, Load), Load.funct3)
                      ELSE registers[r]]_vars

\* the store/load scenario has run: SW of 0x12345678 at 0x100, then LW
\* and LBU there
C9_RoundTripDone ==
    /\ image = Scenario4
    /\ nsteps = 6
    /\ last.res = "Ok(true)"
    /\ registers[2] = \h100
    /\ registers[3] = \h12345678
    /\ registers[4] = \h78

\* the load or the store at pc: its effective address and its access
\* size in bytes (0 for an undefined funct3)
AccessAddr ==
    IF Opcode = STORE_CLASS THEN effective_addr(VM, SType_new(Insn))
    ELSE effective_addr(VM, IType_new(Insn))

AccessSize ==
    LET funct3 == (Lo(Insn) \div 4096) % 8
    IN  IF Opcode = STORE_CLASS
        THEN CASE funct3 = \b000 -> 1
               [] funct3 = \b001 -> 2
               [] funct3 = \b010 -> 4
               [] OTHER -> 0
        ELSE CASE funct3 \in {\b000, \b100} -> 1
               [] funct3 \in {\b001, \b101} -> 2
               [] funct3 = \b010 -> 4
               [] OTHER -> 0

\* C10: a load or a store whose effective address is not a multiple of
\* its access size returns the alignment error and leaves registers,
\* memory and PC as they were; a byte access never returns the alignment
\* error.
C10_MisalignedAccessFails ==
    [][(IsStepCall /\ FetchOk
        /\ Opcode \in {IMMEDIATE_LOAD_CLASS, STORE_CLASS}
        /\ AccessSize # 0)
           => /\ AccessAddr % AccessSize # 0
                    => /\ last'.res = "MemoryError"
                       /\ registers' = registers
                       /\ memory' = memory
                       /\ pc' = pc
              /\ AccessSize = 1 => last'.res # "MemoryError"]_vars

\* SW x1, 2(x2) with x2 = 0 has failed on its address 2
C10_MisalignedStoreFailed ==
    /\ image = Image(<<NOP, NOP, SW(1, 2, 2)>>, 8)
    /\ last.op = "step"
    /\ last.res = "MemoryError"
    /\ registers[2] = 0
    /\ pc = 8

\* the register file with value v in rd, and x0 as it was
RegsWith(rd, v) ==
    [r \in 0 .. 31 |-> IF r = rd /\ r # 0 THEN v ELSE registers[r]]

\* the R-type form at pc, and whether it is one of DIV, DIVU, REM, REMU
RForm == RType_new(Insn)
IsDivRem ==
    /\ Opcode = REGISTER_CLASS
    /\ RForm.funct7 = \b0000001
    /\ RForm.funct3 \in {\b100, \b101, \b110, \b111}

\* C11: with reg[rs2] = 0, DIV and DIVU write 0xFFFFFFFF to rd and REM and
\* REMU write reg[rs1] to rd; the step succeeds and PC advances by 4.
C11_DivisionByZero ==
    [][(IsStepCall /\ FetchOk /\ IsDivRem /\ registers[RForm.rs2] = 0)
           => /\ last'.res = "Ok(true)"
              /\ pc' = wrapping_add(pc, 4)
              /\ registers' =
                     RegsWith(RForm.rd,
                              IF RForm.funct3 \in {\b100, \b101}
                              THEN Hex(\hffff, \hffff)
                              ELSE registers[RForm.rs1])
              /\ memory' = memory]_vars

\* REM x3, x1, x2 has run with x1 = 0x12345678 and x2 = 0
C11_RemByZeroDone ==
    /\ image = Image(<<NOP, NOP, EncR(\b0000001, 2, 1, \b110, 3)>>, 8)
    /\ last.op = "step"
    /\ last.res = "Ok(true)"
    /\ pc = 12
    /\ registers[1] = \h12345678
    /\ registers[2] = 0
    /\ registers[3] = \h12345678

\* C12: with reg[rs1] = 0x80000000 and reg[rs2] = 0xFFFFFFFF, DIV writes
\* 0x80000000 to rd and REM writes 0 to rd, and the step succeeds.
C12_SignedDivisionOverflow ==
    [][(IsStepCall /\ FetchOk /\ IsDivRem
        /\ RForm.funct3 \in {\b100, \b110}
        /\ registers[RForm.rs1] = IntMin /\ registers[RForm.rs2] = -1)
           => /\ last'.res = "Ok(true)"
              /\ registers' =
                     RegsWith(RForm.rd,
                              IF RForm.funct3 = \b100 THEN IntMin ELSE 0)]_vars

\* DIV x3, x1, x2 and REM x4, x1, x2 have run with x1 = i32::MIN, x2 = -1
C12_DivOverflowDone ==
    /\ image = DivOverflow
    /\ nsteps = 4
    /\ last.res = "Ok(true)"
    /\ registers[1] = IntMin
    /\ registers[2] = -1
    /\ registers[3] = IntMin
    /\ registers[4] = 0

\* bit i of a word
Bit(w, i) ==
    IF i < 16 THEN (Lo(w) \div (2 ^ i)) % 2 ELSE (Hi(w) \div (2 ^ (i - 16))) % 2

\* the shift a word is: "SLL", "SRL", "SRA", or "none" for any other
\* word.  The register and the immediate forms share the fields of the R
\* layout, given here as f.
ShiftKind(opcode, f) ==
    IF opcode \in {REGISTER_CLASS, IMMEDIATE_CLASS}
    THEN CASE f.funct3 = \b001 /\ f.funct7 = \b0000000 -> "SLL"
           [] f.funct3 = \b101 /\ f.funct7 = \b0000000 -> "SRL"
           [] f.funct3 = \b101 /\ f.funct7 = \b0100000 -> "SRA"
           [] OTHER -> "none"
    ELSE "none"

\* the low 5 bits of its shift amount: of reg[rs2], or of insn[24:20]
ShiftAmount(opcode, f) ==
    IF opcode = REGISTER_CLASS THEN Lo(registers[f.rs2]) % 32 ELSE f.rs2

\* bit i of w shifted by n in 0 .. 31: zeros enter a logical shift, the
\* sign bit enters an arithmetic one
ShiftedBit(kind, w, n, i) ==
    CASE kind = "SLL" -> IF i >= n THEN Bit(w, i - n) ELSE 0
      [] kind = "SRL" -> IF i + n <= 31 THEN Bit(w, i + n) ELSE 0
      [] kind = "SRA" -> IF i + n <= 31 THEN Bit(w, i + n) ELSE Bit(w, 31)

\* C13: a shift (SLL, SRL, SRA, SLLI, SRLI, SRAI) writes to rd reg[rs1]
\* shifted by the low 5 bits of its shift amount, with zero fill for SLL
\* and SRL and sign fill for SRA, and changes no other register.
C13_ShiftUsesLowFiveBits ==
    [][(IsStepCall /\ FetchOk)
           => \E f \in {RForm} :
              \E kind \in {ShiftKind(Opcode, f)} :
              \E n \in {ShiftAmount(Opcode, f)} :
                  kind # "none"
                      => /\ last'.res = "Ok(true)"
                         /\ \A r \in (0 .. 31) \ {f.rd} :
                                registers'[r] = registers[r]
                         /\ registers'[0] = 0
                         /\ f.rd # 0
                               => \A i \in 0 .. 31 :
                                      Bit(registers'[f.rd], i) =
                                          ShiftedBit(kind, registers[f.rs1],
                                                     n, i)]_vars

\* SLL, SRL and SRA of x1 = 0xFFFFFFFF by x2 = 33 have run: they shifted
\* by 1
C13_ShiftedByThirtyThree ==
    /\ image \in ShiftImages
    /\ nsteps = 4
    /\ registers[1] = -1
    /\ registers[2] = 33
    /\ registers[3] = -2
    /\ registers[4] = -(IntMin + 1)
    /\ registers[5] = -1

\* the outcome the ISA's table of primary opcodes gives a word:
\* the instruction form, "Environment", or "InvalidOpcode"
ClassOf(opcode) ==
    CASE opcode = \b0110011 -> "RType"
      [] opcode \in {\b0010011, \b0000011, \b1100111} -> "IType"
      [] opcode = \b0100011 -> "SType"
      [] opcode = \b1100011 -> "BType"
      [] opcode = \b1101111 -> "JType"
      [] opcode \in {\b0110111, \b0010111} -> "UType"
      [] opcode = \b1110011 -> "Environment"
      [] OTHER -> "InvalidOpcode"

\* the outcome of the decoder on a word, in the same terms
Decoded(d) ==
    CASE d.err = "None" -> d.tag
      [] d.err = "EnvironmentError" -> "Environment"
      [] OTHER -> d.err

\* C14: the decoder classifies every word by its low 7 bits, as the table
\* of primary opcodes has them; checked on every word the memory holds.
C14_DecoderClassifiesByOpcode ==
    \A i \in DOMAIN memory :
        Decoded(decode(memory[i])) = ClassOf(Lo(memory[i]) % 128)

\* the word at pc is AUIPC x3, 1, and the decoder gives InvalidOpcode
C14_AuipcNotDecoded ==
    /\ image = Image(<<NOP, NOP, AUIPC(3, 1)>>, 8)
    /\ pc = 8
    /\ Insn = \h00001197
    /\ decode(Insn).err = "InvalidOpcode"

\* C15: AUIPC succeeds, writes the PC of its entry plus the word with its
\* low 12 bits cleared, modulo 2^32, to rd, and advances PC by 4.
C15_AuipcAddsUpperImmediate ==
    [][(IsStepCall /\ FetchOk /\ Opcode = \b0010111)
           => /\ last'.res = "Ok(true)"
              /\ registers' =
                     RegsWith(RForm.rd,
                              wrapping_add(pc, Word(Hi(Insn),
                                                    (Lo(Insn) \div 4096)
                                                    * 4096)))
              /\ pc' = wrapping_add(pc, 4)]_vars

\* the step of AUIPC x3, 1 at PC = 8 has returned InvalidOpcode: x3 is
\* still 0 and PC is still 8
C15_AuipcRejected ==
    /\ image = Image(<<NOP, NOP, AUIPC(3, 1)>>, 8)
    /\ last.op = "step"
    /\ last.res = "InvalidOpcode"
    /\ registers[3] = 0
    /\ pc = 8

\* C16: after load_program(words, base), for a base that is a multiple
\* of 4, a fetch at byte address base + 4 * i yields words[i]; checked on
\* the memory as the loader leaves it, before the first step.
C16_ProgramLoadedAtBase ==
    (nsteps = 0 /\ image.pc_base % 4 = 0)
        => \A i \in 1 .. Len(image.instructions) :
               read_mem(memory, image.pc_base + 4 * (i - 1), "WORD_SIZE")
                   = [some |-> TRUE, value |-> image.instructions[i]]

\* the image loaded at base 8 and entered at PC = 8: its first word,
\* ADDI x1, x0, 5, is in the word of index 8 (byte address 32), and the
\* first step has fetched the zero word at byte address 8
C16_FetchedBelowProgram ==
    /\ image = Based
    /\ last.op = "step"
    /\ last.res = "InvalidOpcode"
    /\ pc = 8
    /\ WordAt(memory, 8) = \h00500093
    /\ read_mem(memory, 32, "WORD_SIZE").value = \h00500093
    /\ Insn = 0

\* the bits from .. to of w placed at positions dst .. of the result,
\* as <<source bit, destination bit>> pairs
BitRange(from, to, dst) ==
    [k \in 1 .. (to - from + 1) |-> <<from + k - 1, dst + k - 1>>]

RECURSIVE Gather(_, _)
Gather(w, pairs) ==
    IF pairs = <<>>
    THEN 0
    ELSE Bit(w, Head(pairs)[1]) * (2 ^ Head(pairs)[2]) + Gather(w, Tail(pairs))

\* signExtend of the ISA layouts: insn[31] is the sign, of weight -2^top
SignExtended(w, pairs, top) == Gather(w, pairs) - Bit(w, 31) * (2 ^ top)

ReferenceI(w) == SignExtended(w, BitRange(20, 30, 0), 11)
ReferenceS(w) ==
    SignExtended(w, BitRange(7, 11, 0) \o BitRange(25, 30, 5), 11)
ReferenceB(w) ==
    SignExtended(w, BitRange(8, 11, 1) \o BitRange(25, 30, 5) \o <<(<<7, 11>>)>>, 12)
ReferenceJ(w) ==
    SignExtended(w, BitRange(21, 30, 1) \o <<(<<20, 11>>)>> \o BitRange(12, 19, 12), 20)
ReferenceU(w) == Hex(Hi(w), (Lo(w) \div 4096) * 4096)

InRange(imm, low, high) == imm >= low /\ imm <= high

ImmediatesMatch(w) ==
    /\ \E imm \in {IType_new(w).imm} :
           imm = ReferenceI(w) /\ InRange(imm, -2048, 2047)
    /\ SType_new(w).imm = ReferenceS(w)
    /\ \E imm \in {BType_new(w).imm} :
           imm = ReferenceB(w) /\ imm % 2 = 0 /\ InRange(imm, -4096, 4094)
    /\ \E imm \in {JType_new(w).imm} :
           imm = ReferenceJ(w) /\ imm % 2 = 0
               /\ InRange(imm, -(2 ^ 20), (2 ^ 20) - 2)
    /\ UType_new(w).imm = ReferenceU(w)

\* the words with one bit set
OneBit(i) == IF i < 16 THEN Hex(0, 2 ^ i) ELSE Hex(2 ^ (i - 16), 0)

\* words decoded whatever the program: the host's values, each word with
\* one bit set and its complement
FixedWords ==
    HostValues \cup {OneBit(i) : i \in 0 .. 31}
               \cup {-1 - OneBit(i) : i \in 0 .. 31}

FixedWordsMatch == \A w \in FixedWords : ImmediatesMatch(w)

\* C17: the immediates of the five instruction forms equal the sign
\* extensions of the ISA bit layout, with their ranges and parities, for
\* every word of the loaded program, every host value, and every word
\* with exactly one bit set or exactly one bit clear.
C17_ImmediatesAreSignExtended ==
    /\ FixedWordsMatch
    /\ (nsteps = 0 /\ nwrites = 0)
           => \A i \in DOMAIN image.instructions :
                  ImmediatesMatch(image.instructions[i])

\* a program with a backward branch is loaded: the offset is negative
\* and bit 7 of the word, the bit 11 of the offset, is set
C17_BackwardBranchDecoded ==
    /\ nsteps = 0
    /\ nwrites = 0
    /\ \E i \in DOMAIN image.instructions :
           /\ Lo(image.instructions[i]) % 128 = BRANCH_CLASS
           /\ BType_new(image.instructions[i]).imm < 0
           /\ Bit(image.instructions[i], 7) = 1

IForm == IType_new(Insn)

\* (reg[rs1] + signExt(imm)) & ~1 on the registers before the step
JalrTarget(rs1, w) ==
    LET t == wrapping_add(registers[rs1], ReferenceI(w)) IN t - (t % 2)

\* C18: a step on JALR with funct3 = 000 succeeds, leaves in rd (unless
\* rd is x0) the address PC + 4 and in PC the sum of the old rs1 and the
\* immediate with bit 0 cleared, whatever rd is; with any other funct3
\* the step returns InvalidOpcode and changes nothing.
C18_JalrLinksAndJumps ==
    [][(IsStepCall /\ FetchOk /\ Opcode = \b1100111)
           => \E f \in {IForm} :
                IF f.funct3 = \b000
                THEN /\ last'.res = "Ok(true)"
                     /\ pc' = JalrTarget(f.rs1, Insn)
                     /\ registers' = RegsWith(f.rd, wrapping_add(pc, 4))
                     /\ memory' = memory
                ELSE /\ last'.res = "InvalidOpcode"
                     /\ registers' = registers
                     /\ pc' = pc
                     /\ memory' = memory]_vars

\* JALR x1, 3(x1) at address 8 has run with x1 = 0x100: x1 holds the
\* link 12 and PC is (0x100 + 3) & ~1
C18_JalrThroughItsOwnLink ==
    /\ image.instructions = <<NOP, NOP, JALR(1, 1, 3)>>
    /\ last.op \in {"step", "run_iteration"}
    /\ last.res = "Ok(true)"
    /\ registers[1] = 12
    /\ pc = \h102

\* C19: a step on a shift immediate (opcode 0010011, funct3 001 or 101)
\* whose insn[31:25] is not one the ISA defines for it (0000000 for SLLI
\* and SRLI, 0100000 for SRAI) returns InvalidOpcode, writes no register
\* and leaves PC; with a defined insn[31:25] it succeeds, advances PC and
\* writes the logical or arithmetic shift the field selects.
C19_ShiftImmediateValidated ==
    [][(IsStepCall /\ FetchOk /\ Opcode = IMMEDIATE_CLASS
            /\ RForm.funct3 \in {\b001, \b101})
           => \E f \in {RForm} :
              \E kind \in {ShiftKind(Opcode, f)} :
                  IF kind = "none"
                  THEN /\ last'.res = "InvalidOpcode"
                       /\ registers' = registers
                       /\ pc' = pc
                  ELSE /\ last'.res = "Ok(true)"
                       /\ pc' = wrapping_add(pc, 4)
                       /\ f.rd # 0
                             => \A i \in 0 .. 31 :
                                    Bit(registers'[f.rd], i) =
                                        ShiftedBit(kind, registers[f.rs1],
                                                   f.rs2, i)]_vars

\* the word of SLLI x3, x1, 4 with insn[31:25] = 0100000 has run with
\* x1 = 1: the step succeeded, x3 = 1 << 4 and PC advanced
C19_SlliWithFunct7Ran ==
    /\ image.instructions =
           <<NOP, NOP, EncI(1024 + 4, 1, \b001, 3, IMMEDIATE_CLASS)>>
    /\ last.op \in {"step", "run_iteration"}
    /\ last.res = "Ok(true)"
    /\ registers[1] = 1
    /\ registers[3] = 16
    /\ pc = 12

\* C20: a run called on a Vm that a run had halted resets nothing: its
\* entry sets running and leaves registers, memory, PC and exit_code;
\* its first step fetches the word that halted the first run, gets the
\* same error, and run returns with running false and registers, memory,
\* PC and exit_code as they were.
C20_RunAgainHaltsAtOnce ==
    [][/\ (last'.op = "run" /\ halted_by' # "None")
              => /\ running'
                 /\ registers' = registers
                 /\ memory' = memory
                 /\ pc' = pc
                 /\ exit_code' = exit_code
       /\ (last.op = "run" /\ halted_by # "None"
               /\ last'.op = "run_iteration")
              => /\ last'.res = halted_by
                 /\ ctl' = "idle"
                 /\ ~running'
                 /\ registers' = registers
                 /\ memory' = memory
                 /\ pc' = pc
                 /\ exit_code' = exit_code]_vars

\* the second run of a program that loaded x1 and stopped on ECALL has
\* returned
C20_SecondRunReturned ==
    /\ halted_by = "EnvironmentError"
    /\ last.op = "run_iteration"
    /\ last.res = "EnvironmentError"
    /\ ctl = "idle"
    /\ ~running
    /\ nsteps > 0
    /\ \E r \in 1 .. 31 : registers[r] # 0

\* C21: no call of step returns Ok(false), so every return of run is the
\* one through the error arm: when a turn of the loop ends run, the step
\* returned an error and running is false; outside a call of run that
\* has not ended, running is false.
C21_RunReturnsNotRunning ==
    /\ [](ctl = "idle" => ~running)
    /\ [][/\ last'.op \in {"step", "run_iteration"}
                 => last'.res \in Errors \cup {"Ok(true)", "panic"}
          /\ (last'.op = "run_iteration" /\ ctl' = "idle")
                 => (last'.res \in Errors /\ ~running')]_vars

\* a first run has executed instructions, then returned on an error
C21_RunReturnedAfterSteps ==
    /\ last.op = "run_iteration"
    /\ last.res \in Errors
    /\ halted_by = "None"
    /\ ctl = "idle"
    /\ ~running
    /\ nsteps >= 2

\* C22: a Vm started at an even PC has an even PC after every step,
\* successful or not, and each step from an even PC leaves an even PC.
C22_PcStaysEven ==
    /\ [](image.pc_start % 2 = 0 => pc % 2 = 0)
    /\ [][(IsStepCall /\ pc % 2 = 0) => pc' % 2 = 0]_vars

\* JALR x1, 0(x2) has run with the odd x2 = 0xFFFFFFFF: PC is
\* 0xFFFFFFFE, even and not a multiple of 4
C22_JumpedToClearedOddTarget ==
    /\ image.instructions = <<NOP, NOP, JALR(1, 2, 0)>>
    /\ image.pc_start % 2 = 0
    /\ last.op \in {"step", "run_iteration"}
    /\ last.res = "Ok(true)"
    /\ registers[2] = -1
    /\ pc = -2
    /\ pc % 4 = 2

====
